---- MODULE Spec2Model ----
(***************************************************************************)
(* Model of the query-sense text-to-SQL agent (src/agent.py): the          *)
(* LangGraph state graph search_engineer -> sql_writer -> qa_engineer ->   *)
(* {END | chief_dba -> sql_writer} over the AgentState record              *)
(* (src/agent_state.py).  Texts are sequences of one-character strings so  *)
(* that strip(), upper() and the substring test are computed, not assumed. *)
(***************************************************************************)
EXTENDS Integers, Sequences, FiniteSets, TLC

(* ------------------------------ bounds -------------------------------- *)

\* Largest max_revision a caller passes to run in the model (the smallest is -1).
MaxRevision == 3

\* Largest max_revision of the two interleaved runs (the smallest is 1).
ConcMaxRevision == 2

\* Longest list of statements handed to execute_transaction / execute_many.
MaxQueries == 2

\* Most statements the modelled database comes to hold.
MaxCommitted == 3

\* Most engines create_engine hands out in one behaviour.
MaxEngines == 3

MaxRevisions == (0 - 1)..MaxRevision

(* ------------------------------ inputs -------------------------------- *)

Questions == {"q1", "q2"}

SchemaTexts == {"schemaA", "schemaB"}

DatabaseNames == {"postgresql"}

\* Arguments of Agent(model, table_schemas, database, environ): the
\* constructor takes whatever strings it is given, the empty string included.
StartupSchemas == SchemaTexts \cup {""}

StartupDatabases == DatabaseNames \cup {""}

\* Texts the model gateway returns to the SQL writer (before strip()).
DraftResponses ==
  { <<"S">>, <<" ", "S", "\n">>, <<"T", " ", "U">> }

\* Texts the model gateway returns to the QA engineer.
TxtACEITO == <<"A", "C", "E", "I", "T", "O">>
TxtAceitoLower == <<"a", "c", "e", "i", "t", "o", ".">>
TxtREJEITADO == <<"R", "E", "J", "E", "I", "T", "A", "D", "O">>
TxtEmpty == <<>>
TxtNaoAceito == <<"N", "A", "O", " ", "A", "C", "E", "I", "T", "O">>

ReviewResponses ==
  { TxtACEITO, TxtAceitoLower, TxtREJEITADO, TxtEmpty, TxtNaoAceito }

\* Texts the model gateway returns to the chief DBA.
FeedbackResponses == { <<"f", "1">>, <<"f", "2">> }

(* --------------------------- text functions --------------------------- *)

Whitespace == {" ", "\n", "\t"}

\* str.upper() on one character.
UpperChar(c) ==
  CASE c = "a" -> "A"
    [] c = "c" -> "C"
    [] c = "e" -> "E"
    [] c = "i" -> "I"
    [] c = "t" -> "T"
    [] c = "o" -> "O"
    [] c = "f" -> "F"
    [] OTHER -> c

\* str.upper()
Upper(s) == [i \in 1..Len(s) |-> UpperChar(s[i])]

\* `sub in s` for Python strings
Contains(sub, s) ==
  \E i \in 0..(Len(s) - Len(sub)) :
    \A j \in 1..Len(sub) : s[i + j] = sub[j]

\* str.strip()
Strip(s) ==
  LET keep == {i \in 1..Len(s) : s[i] \notin Whitespace}
  IN IF keep = {} THEN <<>>
     ELSE LET lo == CHOOSE i \in keep : \A k \in keep : i <= k
              hi == CHOOSE i \in keep : \A k \in keep : k <= i
          IN SubSeq(s, lo, hi)

(* ------------------------------- state -------------------------------- *)

VARIABLES
  self_table_schemas,  \* Agent.table_schemas
  self_database,       \* Agent.database
  state,               \* the AgentState held by the graph (thread "1")
  node,                \* the graph node that executes next, or idle/END/failed
  drafts,              \* history: sql_writer executions completed in this run
  verdicts,            \* history: the review verdicts of this run, in order
  feedbacks,           \* history: the texts the chief DBA got in this run, in order
  reviews,             \* history: the texts the QA engineer got in this run, in order
  calls,               \* history: self.llm.invoke calls made in this run
  returned,            \* what run handed back to its caller: <<>> is None
  mode,                \* the gateway: "live", or a stub that records / replays
  trace,               \* stub: the responses served in this recorded run, in order
  canned,              \* stub: the responses still to be served in a replay
  expected,            \* stub: <<terminal state>> of the run being replayed
  args,                \* history: <<question, max_revision>> passed to this run
  last_draft,          \* history: the text the SQL writer got last in this run
  instruction,         \* history: the instruction the SQL writer built last
  cnode,               \* interleaved runs: the node each run executes next
  cstate,              \* interleaved runs: the state each stream holds
  cthread,             \* interleaved runs: the thread_id each run uses ("" before)
  saver,               \* MemorySaver: the latest checkpoint of each thread_id
  cresult,             \* interleaved runs: <<graph.get_state(thread)>> at the end
  engine,              \* ManagerDatabase.engine: 0 is None, else the engine's id
  created,             \* the engines create_engine has made
  disposed,            \* the engines dispose() was called on
  conn_open,           \* whether the connection of get_connection is open
  committed,           \* the statements whose effects are committed, in order
  pending,             \* the statements executed in the open transaction
  tx_queries,          \* the list given to the operation in progress / last run
  todo,                \* the statements of the list not yet executed
  db_pc,               \* "idle", or "exec" inside execute_transaction / _many
  db_result            \* how the last operation ended

agent == <<self_table_schemas, self_database>>

history == <<drafts, verdicts, feedbacks, reviews>>

stub == <<mode, trace, canned, expected>>

observed == <<args, last_draft, instruction>>

conc == <<cnode, cstate, cthread, saver, cresult>>

db == <<engine, created, disposed, conn_open, committed, pending, tx_queries,
        todo, db_pc, db_result>>

aside == <<conc, db>>

graph == <<agent, state, node, history, calls, returned, stub, observed>>

vars == <<graph, conc, db>>

Keys ==
  {"question", "table_schemas", "database", "sql", "reflect", "accepted",
   "revision", "max_revision"}

\* A node's return value written to the state: AgentState declares no reducer
\* for any key, so every returned key replaces the stored value.
Merge(st, upd) ==
  [k \in DOMAIN st |-> IF k \in DOMAIN upd THEN upd[k] ELSE st[k]]

\* run: initial_state, with the revision counter left out.
InitialState_norevision(question, max_revision) ==
  [question |-> question,
   table_schemas |-> "",
   database |-> "",
   sql |-> <<>>,
   reflect |-> <<>>,
   accepted |-> FALSE,
   max_revision |-> max_revision]

\* run: initial_state
InitialState(question, max_revision) ==
  [question |-> question,
   table_schemas |-> "",
   database |-> "",
   sql |-> <<>>,
   reflect |-> <<>>,
   accepted |-> FALSE,
   revision |-> 0,
   max_revision |-> max_revision]

(* ------------------------------ history ------------------------------- *)

\* The history variables observe a run and are not program state.  They stop
\* growing at HistoryCap, more than any run of the graph produces.
HistoryCap == MaxRevision + 1

Record(h, x) == IF Len(h) < HistoryCap THEN Append(h, x) ELSE h

Count(n) == IF n < HistoryCap THEN n + 1 ELSE n

\* A run makes at most three calls per draft.
CallCap == 3 * HistoryCap

CountCall(n) == IF n < CallCap THEN n + 1 ELSE n

(* ------------------------------- nodes -------------------------------- *)

\* The SQL writer storing the gateway's text untrimmed.
senior_sql_writer_node_nostrip(st, response) ==
  [sql |-> response, revision |-> st.revision + 1]

\* The schema provider with its two fields swapped.
search_engineer_node_swapped(st, schemas, database) ==
  [table_schemas |-> database, database |-> schemas]

search_engineer_node(st, schemas, database) ==
  [table_schemas |-> schemas, database |-> database]

senior_sql_writer_node_norev(st, response) ==
  [sql |-> Strip(response), revision |-> st.revision]

senior_sql_writer_node(st, response) ==
  [sql |-> Strip(response), revision |-> st.revision + 1]

\* The verdict taken from an exact match instead of a substring match.
senior_qa_engineer_node_exact(st, response) ==
  [accepted |-> Upper(response) = TxtACEITO]

senior_qa_engineer_node(st, response) ==
  [accepted |-> Contains(TxtACEITO, Upper(response))]

\* chr(10).join(texts)
RECURSIVE JoinLines(_)
JoinLines(texts) ==
  IF texts = <<>> THEN <<>>
  ELSE IF Len(texts) = 1 THEN texts[1]
  ELSE texts[1] \o <<"\n">> \o JoinLines(Tail(texts))

\* The instruction of the SQL writer with the feedback clause always present.
Instruction_always_clause(st) ==
  <<[part |-> "Esquema do banco de dados", text |-> st.table_schemas],
    [part |-> "Considere os seguintes feedbacks", text |-> JoinLines(st.reflect)],
    [part |-> "Escreva a consulta SQL", text |-> st.question]>>

\* The instruction of the SQL writer, as the sequence of its clauses.
Instruction(st) ==
  <<[part |-> "Esquema do banco de dados", text |-> st.table_schemas]>>
  \o (IF Len(st.reflect) > 0
        THEN <<[part |-> "Considere os seguintes feedbacks",
                text |-> JoinLines(st.reflect)]>>
        ELSE <<>>)
  \o <<[part |-> "Escreva a consulta SQL", text |-> st.question]>>

\* The conditional edge out of qa_engineer, with the cap tested for equality.
Route_eq(st) ==
  IF st.accepted \/ st.revision = st.max_revision THEN "END" ELSE "chief_dba"

chief_dba_node(st, response) ==
  [reflect |-> <<response>>]

\* The conditional edge out of qa_engineer, with a cap test that is off by one.
Route_gt(st) ==
  IF st.accepted \/ st.revision > st.max_revision THEN "END" ELSE "chief_dba"

\* The conditional edge out of qa_engineer, ignoring the verdict.
Route_cap_only(st) ==
  IF st.revision >= st.max_revision THEN "END" ELSE "chief_dba"

\* The conditional edge out of qa_engineer, with the verdict inverted.
Route_inverted(st) ==
  IF ~st.accepted \/ st.revision >= st.max_revision THEN "END" ELSE "chief_dba"

\* The conditional edge out of qa_engineer: END or "reflect" (-> chief_dba).
Route(st) ==
  IF st.accepted \/ st.revision >= st.max_revision THEN "END" ELSE "chief_dba"

(* ------------------------------ actions ------------------------------- *)

Runs == {1, 2}

\* run: thread = {"configurable": {"thread_id": "1"}}
ThreadId == "1"

ThreadIds == {ThreadId}

\* No run has started; the checkpointer holds nothing a run reads.
ConcInit ==
  /\ cnode = [r \in Runs |-> "idle"]
  /\ cstate = [r \in Runs |-> InitialState("q1", 0)]
  /\ cthread = [r \in Runs |-> ""]
  /\ saver = [t \in ThreadIds |-> InitialState("q1", 0)]
  /\ cresult = [r \in Runs |-> <<>>]

\* ManagerDatabase.__init__: no engine.
DbInit ==
  /\ engine = 0
  /\ created = {}
  /\ disposed = {}
  /\ conn_open = FALSE
  /\ committed = <<>>
  /\ pending = <<>>
  /\ tx_queries = <<>>
  /\ todo = <<>>
  /\ db_pc = "idle"
  /\ db_result = "none"

\* Agent.__init__ stores its arguments as given.
Init ==
  /\ self_table_schemas \in StartupSchemas
  /\ self_database \in StartupDatabases
  /\ state = InitialState("q1", 0)
  /\ node = "idle"
  /\ drafts = 0
  /\ verdicts = <<>>
  /\ feedbacks = <<>>
  /\ reviews = <<>>
  /\ calls = 0
  /\ returned = <<>>
  /\ mode = "live"
  /\ trace = <<>>
  /\ canned = <<>>
  /\ expected = <<>>
  /\ args = <<>>
  /\ last_draft = <<>>
  /\ instruction = <<>>
  /\ ConcInit
  /\ DbInit

\* The texts self.llm.invoke can return at this call: any of `responses` from
\* a live or recording gateway, the next canned text from a replaying stub.
Served(responses) ==
  IF mode = "replay"
    THEN (IF canned = <<>> THEN {} ELSE {Head(canned)})
    ELSE responses

\* The stub's bookkeeping of one served response.
Serve(response) ==
  /\ mode' = mode
  /\ expected' = expected
  /\ trace' = IF mode = "record" THEN Append(trace, response) ELSE trace
  /\ canned' = IF mode = "replay" THEN Tail(canned) ELSE canned

\* The start of run with an initial_state that leaves the revision counter
\* of the checkpointed state in place.
Start_norevision(question, max_revision) ==
  /\ state' = Merge(state, InitialState_norevision(question, max_revision))
  /\ node' = "search_engineer"
  /\ drafts' = 0
  /\ verdicts' = <<>>
  /\ feedbacks' = <<>>
  /\ reviews' = <<>>
  /\ calls' = 0
  /\ returned' = <<>>
  /\ args' = <<question, max_revision>>
  /\ last_draft' = <<>>
  /\ instruction' = <<>>
  /\ UNCHANGED agent
  /\ UNCHANGED aside

\* The start of run: the graph is streamed from its entry point with
\* initial_state as input, on thread "1" of the agent's checkpointer.
Start(question, max_revision) ==
  /\ state' = Merge(state, InitialState(question, max_revision))
  /\ node' = "search_engineer"
  /\ drafts' = 0
  /\ verdicts' = <<>>
  /\ feedbacks' = <<>>
  /\ reviews' = <<>>
  /\ calls' = 0
  /\ returned' = <<>>
  /\ args' = <<question, max_revision>>
  /\ last_draft' = <<>>
  /\ instruction' = <<>>
  /\ UNCHANGED agent
  /\ UNCHANGED aside

\* run(question, max_revision) against a live gateway.
Run ==
  /\ node \in {"idle", "END", "failed"}
  /\ \E question \in Questions, max_revision \in MaxRevisions :
       Start(question, max_revision)
  /\ mode' = "live"
  /\ trace' = <<>>
  /\ canned' = <<>>
  /\ expected' = <<>>

\* run(question, max_revision) against a stub that records what it serves.
RunRecorded ==
  /\ node \in {"idle", "END", "failed"}
  /\ \E question \in Questions, max_revision \in MaxRevisions :
       Start(question, max_revision)
  /\ mode' = "record"
  /\ trace' = <<>>
  /\ canned' = <<>>
  /\ expected' = <<>>

\* run called again on the same compiled agent with the question and
\* max_revision of the recorded run that just ended, against a stub that
\* serves the recorded responses again.
Replay ==
  /\ node = "END"
  /\ mode = "record"
  /\ Start(state.question, state.max_revision)
  /\ mode' = "replay"
  /\ canned' = trace
  /\ expected' = <<state>>
  /\ trace' = <<>>

SearchEngineer ==
  /\ node = "search_engineer"
  /\ state' = Merge(state, search_engineer_node(state, self_table_schemas, self_database))
  /\ node' = "sql_writer"
  /\ UNCHANGED <<agent, history, calls, returned, stub, observed>>
  /\ UNCHANGED aside

SqlWriter ==
  /\ node = "sql_writer"
  /\ \E response \in Served(DraftResponses) :
       /\ state' = Merge(state, senior_sql_writer_node(state, response))
       /\ last_draft' = response
       /\ Serve(response)
  /\ instruction' = Instruction(state)
  /\ node' = "qa_engineer"
  /\ drafts' = Count(drafts)
  /\ calls' = CountCall(calls)
  /\ UNCHANGED <<agent, verdicts, feedbacks, reviews, returned, args>>
  /\ UNCHANGED aside

\* The node, its conditional edge and, when the edge leads to END, the rest
\* of run: self.state is set and run ends without a return statement.
QaEngineer ==
  /\ node = "qa_engineer"
  /\ \E response \in Served(ReviewResponses) :
       /\ state' = Merge(state, senior_qa_engineer_node(state, response))
       /\ verdicts' = Record(verdicts, state'.accepted)
       /\ reviews' = Record(reviews, response)
       /\ Serve(response)
  /\ node' = Route(state')
  /\ calls' = CountCall(calls)
  /\ returned' = <<>>
  /\ UNCHANGED <<agent, drafts, feedbacks, observed>>
  /\ UNCHANGED aside

\* The feedback stage wired back to the reviewer instead of the SQL writer.
ChiefDba_skips_draft ==
  /\ node = "chief_dba"
  /\ \E response \in Served(FeedbackResponses) :
       /\ state' = Merge(state, chief_dba_node(state, response))
       /\ feedbacks' = Record(feedbacks, response)
       /\ Serve(response)
  /\ node' = "qa_engineer"
  /\ calls' = CountCall(calls)
  /\ UNCHANGED <<agent, drafts, verdicts, reviews, returned, observed>>
  /\ UNCHANGED aside

ChiefDba ==
  /\ node = "chief_dba"
  /\ \E response \in Served(FeedbackResponses) :
       /\ state' = Merge(state, chief_dba_node(state, response))
       /\ feedbacks' = Record(feedbacks, response)
       /\ Serve(response)
  /\ node' = "sql_writer"
  /\ calls' = CountCall(calls)
  /\ UNCHANGED <<agent, drafts, verdicts, reviews, returned, observed>>
  /\ UNCHANGED aside

\* A failing call that is taken for a reject verdict or an empty text
\* instead of being raised.
GatewayFails_swallowed ==
  /\ node \in {"sql_writer", "qa_engineer", "chief_dba"}
  /\ mode # "replay"
  /\ node' = IF node = "sql_writer" THEN "qa_engineer"
             ELSE IF node = "chief_dba" THEN "sql_writer"
             ELSE Route(state)
  /\ calls' = CountCall(calls)
  /\ UNCHANGED <<agent, state, history, returned, stub, observed>>
  /\ UNCHANGED aside

\* self.llm.invoke raises: nothing in the node or in run catches it, the
\* node's update is not written and the stream is abandoned.  A replaying
\* stub serves texts only.
GatewayFails ==
  /\ node \in {"sql_writer", "qa_engineer", "chief_dba"}
  /\ mode # "replay"
  /\ node' = "failed"
  /\ calls' = CountCall(calls)
  /\ UNCHANGED <<agent, state, history, returned, stub, observed>>
  /\ UNCHANGED aside

Stage == SearchEngineer \/ SqlWriter \/ QaEngineer \/ ChiefDba

Next ==
  \/ Run
  \/ SearchEngineer
  \/ SqlWriter
  \/ QaEngineer
  \/ ChiefDba
  \/ GatewayFails

Spec == Init /\ [][Next]_vars

\* graph.stream runs the pending node as long as there is one.
LiveSpec == Init /\ [][Next]_vars /\ WF_vars(Stage)

\* Runs against the recording stub, each of which may be run again.
DetNext ==
  \/ RunRecorded
  \/ Replay
  \/ SearchEngineer
  \/ SqlWriter
  \/ QaEngineer
  \/ ChiefDba
  \/ GatewayFails

DetSpec == Init /\ [][DetNext]_vars

Nodes ==
  {"idle", "search_engineer", "sql_writer", "qa_engineer", "chief_dba", "END", "failed"}

(***************************************************************************)
(* Two runs of one compiled agent whose stages interleave                  *)
(***************************************************************************)

\* The checkpointer saves the state a run's stream holds after each step,
\* under the thread_id the run passed.
Checkpoint(thread, st) == [saver EXCEPT ![thread] = st]

\* run up to the first node: the thread is the literal of the code, and the
\* input, which has every key, is applied to the thread's checkpoint.
CStart(r) ==
  \E question \in Questions, max_revision \in 1..ConcMaxRevision :
    /\ cnode[r] = "idle"
    /\ cthread' = [cthread EXCEPT ![r] = ThreadId]
    /\ cstate' = [cstate EXCEPT
                    ![r] = Merge(saver[ThreadId], InitialState(question, max_revision))]
    /\ saver' = Checkpoint(cthread'[r], cstate'[r])
    /\ cnode' = [cnode EXCEPT ![r] = "search_engineer"]
    /\ UNCHANGED cresult
    /\ UNCHANGED <<graph, db>>

CSearchEngineer(r) ==
  /\ cnode[r] = "search_engineer"
  /\ cstate' = [cstate EXCEPT
                  ![r] = Merge(@, search_engineer_node(@, self_table_schemas, self_database))]
  /\ saver' = Checkpoint(cthread[r], cstate'[r])
  /\ cnode' = [cnode EXCEPT ![r] = "sql_writer"]
  /\ UNCHANGED <<cthread, cresult>>
  /\ UNCHANGED <<graph, db>>

CSqlWriter(r) ==
  \E response \in DraftResponses :
    /\ cnode[r] = "sql_writer"
    /\ cstate' = [cstate EXCEPT ![r] = Merge(@, senior_sql_writer_node(@, response))]
    /\ saver' = Checkpoint(cthread[r], cstate'[r])
    /\ cnode' = [cnode EXCEPT ![r] = "qa_engineer"]
    /\ UNCHANGED <<cthread, cresult>>
    /\ UNCHANGED <<graph, db>>

CQaEngineer(r) ==
  \E response \in ReviewResponses :
    /\ cnode[r] = "qa_engineer"
    /\ cstate' = [cstate EXCEPT ![r] = Merge(@, senior_qa_engineer_node(@, response))]
    /\ saver' = Checkpoint(cthread[r], cstate'[r])
    /\ cnode' = [cnode EXCEPT ![r] = Route(cstate'[r])]
    /\ UNCHANGED <<cthread, cresult>>
    /\ UNCHANGED <<graph, db>>

CChiefDba(r) ==
  \E response \in FeedbackResponses :
    /\ cnode[r] = "chief_dba"
    /\ cstate' = [cstate EXCEPT ![r] = Merge(@, chief_dba_node(@, response))]
    /\ saver' = Checkpoint(cthread[r], cstate'[r])
    /\ cnode' = [cnode EXCEPT ![r] = "sql_writer"]
    /\ UNCHANGED <<cthread, cresult>>
    /\ UNCHANGED <<graph, db>>

\* run after the stream: self.state = graph.get_state(thread).
CGetState(r) ==
  /\ cnode[r] = "END"
  /\ cresult' = [cresult EXCEPT ![r] = <<saver[cthread[r]]>>]
  /\ cnode' = [cnode EXCEPT ![r] = "done"]
  /\ UNCHANGED <<cstate, cthread, saver>>
  /\ UNCHANGED <<graph, db>>

ConcNext ==
  \E r \in Runs :
    \/ CStart(r)
    \/ CSearchEngineer(r)
    \/ CSqlWriter(r)
    \/ CQaEngineer(r)
    \/ CChiefDba(r)
    \/ CGetState(r)

ConcSpec == Init /\ [][ConcNext]_vars

ConcTypeOK ==
  /\ cnode \in [Runs -> Nodes \cup {"done"}]
  /\ cthread \in [Runs -> {"", ThreadId}]
  /\ \A r \in Runs : DOMAIN cstate[r] = Keys
  /\ \A t \in ThreadIds : DOMAIN saver[t] = Keys

(***************************************************************************)
(* ManagerDatabase: the engine and the transactional operations            *)
(***************************************************************************)

Queries == {"ins", "upd"}

Parameters == {"p1"}

\* A statement is a tuple (query, parameters).
Statements == Queries \X Parameters

RECURSIVE ListsUpTo(_)
ListsUpTo(n) ==
  IF n = 0 THEN {<<>>}
  ELSE LET shorter == ListsUpTo(n - 1)
       IN  shorter \cup {Append(l, s) : l \in shorter, s \in Statements}

\* execute_transaction takes any list of tuples.
QueryLists == ListsUpTo(MaxQueries)

\* execute_many runs one query with each of the parameters of a list.
ManyLists == {l \in QueryLists : \A i, j \in 1..Len(l) : l[i][1] = l[j][1]}

ListsOf(op) == IF op = "execute_many" THEN ManyLists ELSE QueryLists

\* The ways connect can end: create_engine raises, the test query raises, or
\* neither.
ConnectOutcomes == {"ok", "create_fails", "test_fails"}

\* The ways entering get_connection can end; "open_fails" is engine.connect()
\* raising.
ConnectionOutcomes == ConnectOutcomes \cup {"open_fails"}

\* The ways an operation can end before its first statement; "begin_fails" is
\* conn.begin() raising inside the with block.
BeginOutcomes == ConnectionOutcomes \cup {"begin_fails"}

NewEngine == Cardinality(created) + 1

\* connect: the engine is assigned as soon as create_engine returns, before
\* the test query, and the engine held before is dropped without dispose().
connect(outcome) ==
  IF outcome = "create_fails"
  THEN UNCHANGED <<engine, created>>
  ELSE /\ Cardinality(created) < MaxEngines
       /\ engine' = NewEngine
       /\ created' = created \cup {NewEngine}

\* get_connection up to the yield: connect only when no engine is held.
get_connection(outcome) ==
  IF engine = 0
  THEN connect(IF outcome \in ConnectOutcomes THEN outcome ELSE "ok")
  ELSE /\ outcome \notin {"create_fails", "test_fails"}
       /\ UNCHANGED <<engine, created>>

Connect ==
  \E outcome \in ConnectOutcomes :
    /\ db_pc = "idle"
    /\ connect(outcome)
    /\ db_result' = IF outcome = "ok" THEN "connected" ELSE "raised"
    /\ UNCHANGED <<disposed, conn_open, committed, pending, tx_queries, todo, db_pc>>
    /\ UNCHANGED <<graph, conc>>

Disconnect ==
  /\ db_pc = "idle"
  /\ IF engine # 0
     THEN /\ disposed' = disposed \cup {engine}
          /\ engine' = 0
     ELSE UNCHANGED <<disposed, engine>>
  /\ db_result' = "disconnected"
  /\ UNCHANGED <<created, conn_open, committed, pending, tx_queries, todo, db_pc>>
  /\ UNCHANGED <<graph, conc>>

\* execute_query: the connection is opened, the query runs or raises, and the
\* connection is closed on the way out.
ExecuteQuery ==
  \E outcome \in ConnectionOutcomes \cup {"execute_fails"} :
    /\ db_pc = "idle"
    /\ get_connection(IF outcome = "execute_fails" THEN "ok" ELSE outcome)
    /\ conn_open' = FALSE
    /\ db_result' = IF outcome = "ok" THEN "rows" ELSE "raised"
    /\ UNCHANGED <<disposed, committed, pending, tx_queries, todo, db_pc>>
    /\ UNCHANGED <<graph, conc>>

\* execute_transaction / execute_many up to the loop: get_connection, then
\* conn.begin().
Begin ==
  \E op \in {"execute_transaction", "execute_many"}, outcome \in BeginOutcomes :
    \E queries \in ListsOf(op) :
      /\ db_pc = "idle"
      /\ Len(committed) + Len(queries) <= MaxCommitted
      /\ get_connection(IF outcome = "begin_fails" THEN "ok" ELSE outcome)
      /\ tx_queries' = queries
      /\ todo' = queries
      /\ pending' = <<>>
      /\ IF outcome = "ok"
         THEN /\ conn_open' = TRUE
              /\ db_pc' = op
              /\ db_result' = "running"
         ELSE /\ conn_open' = FALSE
              /\ db_pc' = "idle"
              /\ db_result' = "raised"
      /\ UNCHANGED <<disposed, committed>>
      /\ UNCHANGED <<graph, conc>>

\* One pass of the loop: conn.execute returns.
ExecOk ==
  /\ db_pc # "idle"
  /\ todo # <<>>
  /\ pending' = Append(pending, Head(todo))
  /\ todo' = Tail(todo)
  /\ UNCHANGED <<engine, created, disposed, conn_open, committed, tx_queries,
                 db_pc, db_result>>
  /\ UNCHANGED <<graph, conc>>

ExecFails_commits ==
  /\ db_pc # "idle"
  /\ todo # <<>>
  /\ committed' = committed \o pending
  /\ pending' = <<>>
  /\ conn_open' = FALSE
  /\ db_pc' = "idle"
  /\ db_result' = "raised"
  /\ UNCHANGED <<engine, created, disposed, tx_queries, todo>>
  /\ UNCHANGED <<graph, conc>>

\* One pass of the loop: conn.execute raises SQLAlchemyError; the handler
\* rolls back and re-raises, and get_connection closes the connection.
ExecFails ==
  /\ db_pc # "idle"
  /\ todo # <<>>
  /\ pending' = <<>>
  /\ conn_open' = FALSE
  /\ db_pc' = "idle"
  /\ db_result' = "raised"
  /\ UNCHANGED <<engine, created, disposed, committed, tx_queries, todo>>
  /\ UNCHANGED <<graph, conc>>

\* After the loop: trans.commit() and the return.
Commit ==
  /\ db_pc # "idle"
  /\ todo = <<>>
  /\ committed' = committed \o pending
  /\ pending' = <<>>
  /\ conn_open' = FALSE
  /\ db_result' = IF db_pc = "execute_transaction" THEN "True" ELSE "total"
  /\ db_pc' = "idle"
  /\ UNCHANGED <<engine, created, disposed, tx_queries, todo>>
  /\ UNCHANGED <<graph, conc>>

\* After the loop: trans.commit() raises SQLAlchemyError.
CommitFails ==
  /\ db_pc # "idle"
  /\ todo = <<>>
  /\ pending' = <<>>
  /\ conn_open' = FALSE
  /\ db_pc' = "idle"
  /\ db_result' = "raised"
  /\ UNCHANGED <<engine, created, disposed, committed, tx_queries, todo>>
  /\ UNCHANGED <<graph, conc>>

DbNext ==
  \/ Connect
  \/ Disconnect
  \/ ExecuteQuery
  \/ Begin
  \/ ExecOk
  \/ ExecFails
  \/ Commit
  \/ CommitFails

DbSpec == Init /\ [][DbNext]_vars

DbTypeOK ==
  /\ engine \in 0..MaxEngines
  /\ created \subseteq 1..MaxEngines
  /\ disposed \subseteq created
  /\ conn_open \in BOOLEAN
  /\ Len(committed) <= MaxCommitted
  /\ tx_queries \in QueryLists
  /\ db_pc \in {"idle", "execute_transaction", "execute_many"}
  /\ db_result \in {"none", "connected", "disconnected", "rows", "running",
                    "True", "total", "raised"}

TypeOK ==
  /\ DOMAIN state = Keys
  /\ state.revision \in Nat
  /\ state.accepted \in BOOLEAN
  /\ node \in Nodes
  /\ drafts < HistoryCap
  /\ Len(verdicts) < HistoryCap
  /\ Len(feedbacks) < HistoryCap
  /\ Len(reviews) < HistoryCap
  /\ calls < CallCap
  /\ mode \in {"live", "record", "replay"}

(* ------------------------------ helpers ------------------------------- *)

Running == node \in {"search_engineer", "sql_writer", "qa_engineer", "chief_dba"}

Stopped == node \in {"END", "failed"}

NoAccept == \A i \in 1..Len(verdicts) : ~verdicts[i]

\* the first k-1 reviews rejected and the k-th review accepted
RejectsThenAccept(k) ==
  /\ Len(verdicts) = k
  /\ \A i \in 1..(k - 1) : ~verdicts[i]
  /\ verdicts[k]

(* ------------------------------- claims ------------------------------- *)

\* C1: provided each gateway call returns, every run that was started
\* eventually reaches END: a running graph always leads to END, or to the
\* abort of the run by a gateway call that raised.
C1_RunTerminates == Running ~> Stopped

\* C1 witness: a run that looped through feedback twice and then ended.
C1_Witness ==
  /\ node = "END"
  /\ state.max_revision = 3
  /\ Len(verdicts) = 3
  /\ NoAccept
  /\ Len(feedbacks) = 2

\* C2: a completed review moves the graph to END iff accepted or
\* revision >= max_revision, and to chief_dba iff not accepted and
\* revision < max_revision; these are its only successors, and END is
\* entered from no other node.
C2_ReviewSuccessors ==
  [][ /\ (node = "qa_engineer" /\ node' # "failed") =>
           /\ node' \in {"END", "chief_dba"}
           /\ (node' = "END") <=>
                (state'.accepted \/ state'.revision >= state'.max_revision)
           /\ (node' = "chief_dba") <=>
                (~state'.accepted /\ state'.revision < state'.max_revision)
      /\ (node' = "END" /\ node # "END") => node = "qa_engineer"
    ]_vars

\* C2 witness: a run ended by the cap alone, after one pass through feedback.
C2_Witness ==
  /\ node = "END"
  /\ ~state.accepted
  /\ state.revision = 2
  /\ state.max_revision = 2
  /\ Len(feedbacks) = 1

\* C3: for max_revision >= 1, a run with no accept verdict ends after exactly
\* max_revision executions of sql_writer, with revision = max_revision and
\* accepted = FALSE.
C3_AllRejectDrafts ==
  (node = "END" /\ state.max_revision >= 1 /\ NoAccept) =>
     /\ drafts = state.max_revision
     /\ state.revision = state.max_revision
     /\ state.accepted = FALSE

\* C3 witness: an all-reject run with max_revision = 3 has ended.
C3_Witness ==
  /\ node = "END"
  /\ state.max_revision = 3
  /\ NoAccept
  /\ drafts = 3

\* C4: in every reachable state the number of entries of 'reflect' is at most
\* revision.
C4_ReflectLeRevision == Len(state.reflect) <= state.revision

\* C4 witness: the bound is met with equality right after the first feedback.
C4_Witness ==
  /\ node = "sql_writer"
  /\ Len(state.reflect) = 1
  /\ state.revision = 1

\* C5: the feedback history is append-only: after k executions of the
\* feedback stage 'reflect' holds exactly those k texts in order.
C5_ReflectIsHistory == state.reflect = feedbacks

\* C6: for max_revision >= 1 an all-reject run ends with exactly
\* max_revision - 1 entries in 'reflect'.
C6_AllRejectFeedbackCount ==
  (node = "END" /\ state.max_revision >= 1 /\ NoAccept) =>
     Len(state.reflect) = state.max_revision - 1

\* C7: if the first review accepts, the run has ended with revision = 1,
\* accepted = TRUE and an empty 'reflect', and chief_dba never executed,
\* whatever max_revision is.
C7_FirstAccept ==
  (Len(verdicts) >= 1 /\ verdicts[1]) =>
     /\ node = "END"
     /\ state.revision = 1
     /\ state.accepted = TRUE
     /\ state.reflect = <<>>
     /\ feedbacks = <<>>
     /\ Len(verdicts) = 1

\* C7 witness: a first-review accept under a cap that would allow more drafts.
C7_Witness ==
  /\ node = "END"
  /\ verdicts = <<TRUE>>
  /\ state.max_revision = 3

\* C8: k-1 rejects followed by an accept at review k <= max_revision end the
\* run with revision = k, accepted = TRUE and exactly k-1 entries in 'reflect'.
C8_RejectsThenAccept ==
  \A k \in 1..MaxRevision :
    (node = "END" /\ k <= state.max_revision /\ RejectsThenAccept(k)) =>
       /\ state.revision = k
       /\ state.accepted = TRUE
       /\ Len(state.reflect) = k - 1

\* C9: with max_revision = 1 chief_dba is never reached; a run whose only
\* review rejected has ended with revision = 1, accepted = FALSE and an empty
\* 'reflect'.
C9_CapOneNoFeedback ==
  (Running \/ Stopped) /\ state.max_revision = 1 =>
     /\ node # "chief_dba"
     /\ feedbacks = <<>>
     /\ state.reflect = <<>>
     /\ (verdicts = <<FALSE>> =>
           node = "END" /\ state.revision = 1 /\ state.accepted = FALSE)

\* C9 witness: the single review of a max_revision = 1 run rejected.
C9_Witness ==
  /\ node = "END"
  /\ state.max_revision = 1
  /\ verdicts = <<FALSE>>

\* C10: revision is 0 when a run starts, grows by exactly one on each
\* completed sql_writer step, is unchanged by every other stage, and so
\* always equals the number of drafts produced so far in the run.
C10_RevisionCountsDrafts ==
  /\ [](state.revision = drafts)
  /\ [][ /\ (node' = "search_engineer" /\ node # "search_engineer") =>
              state'.revision = 0
         /\ (node = "sql_writer" /\ node' = "qa_engineer") =>
              state'.revision = state.revision + 1
         /\ (node \in {"search_engineer", "qa_engineer", "chief_dba"}) =>
              state'.revision = state.revision
         /\ Running => state'.revision >= state.revision
       ]_vars

\* C10 witness: three drafts were produced and counted.
C10_Witness ==
  /\ node = "qa_engineer"
  /\ drafts = 3
  /\ state.revision = 3

(* -------------------------- helpers, continued ------------------------- *)

\* The review texts of the model that hold the accept token in any casing.
AcceptingTexts == {TxtACEITO, TxtAceitoLower, TxtNaoAceito}

\* A review text that holds neither 'ACEITO' nor 'REJEITADO'.
NeitherToken(t) ==
  /\ ~Contains(TxtACEITO, Upper(t))
  /\ ~Contains(TxtREJEITADO, Upper(t))

LastReview == reviews[Len(reviews)]

AtLeastOne(m) == IF m >= 1 THEN m ELSE 1

(* -------------------------- claims, continued -------------------------- *)

\* C11: a gateway call that raises aborts the run: the step of the failing
\* call leaves the graph at "failed" with sql, accepted, revision and
\* 'reflect' (the whole state) as they were, records no verdict, draft or
\* feedback, and from "failed" no stage executes and no call is made again
\* until run is called anew.
C11_FailureAborts ==
  [][ /\ (calls' = calls + 1 /\ history' = history) =>
           (node' = "failed" /\ state' = state)
      /\ (node = "failed" /\ node' # "search_engineer") =>
           UNCHANGED <<state, node, history, calls>>
    ]_vars

\* C11 witness: the feedback call of the second cycle raised.
C11_Witness ==
  /\ node = "failed"
  /\ drafts = 2
  /\ Len(reviews) = 2
  /\ Len(feedbacks) = 1
  /\ calls = 6
  /\ state.revision = 2

\* C12: a review response that holds neither the accept nor the reject token
\* makes the run fail; it is never taken for a verdict.
C12_MalformedSurfaced ==
  (\E i \in 1..Len(reviews) : NeitherToken(reviews[i])) => node = "failed"

\* C13: after each review, accepted is TRUE iff the response to that (the
\* most recent) review holds 'ACEITO' in any casing anywhere in its text.
C13_AcceptedIffToken ==
  reviews # <<>> => (state.accepted <=> LastReview \in AcceptingTexts)

\* C13 witness: a negated phrase that embeds the token, after a reject.
C13_Witness ==
  /\ Len(reviews) = 2
  /\ reviews[1] = TxtREJEITADO
  /\ reviews[2] = TxtNaoAceito
  /\ state.accepted

\* C14: the number of gateway calls of one run is at most max_revision
\* (taken for max_revision >= 1, where the cap allows a call at all).
C14_CallsWithinMaxRevision ==
  state.max_revision >= 1 => calls <= state.max_revision

\* C14 as amended: the number of gateway calls of one run is at most
\* 3 * max_revision - 1 for max_revision >= 1, and at most 2 otherwise.
C14_CallsBound == calls <= 3 * AtLeastOne(state.max_revision) - 1

\* C14 witness: the all-reject run of max_revision = 3 made eight calls.
C14_Witness ==
  /\ node = "END"
  /\ state.max_revision = 3
  /\ calls = 8

\* C15: at END accepted is TRUE exactly when the last review, which reviewed
\* the last draft, accepted it, also when revision >= max_revision holds as
\* well; accepted = FALSE at END implies revision >= max_revision.
C15_StopReason ==
  node = "END" =>
     /\ Len(reviews) = drafts
     /\ state.accepted <=> LastReview \in AcceptingTexts
     /\ ~state.accepted => state.revision >= state.max_revision

\* C15 witness: accepted at the very draft that also met the cap.
C15_Witness ==
  /\ node = "END"
  /\ state.accepted
  /\ state.max_revision = 2
  /\ state.revision = 2

\* C16: a run repeated on the same compiled agent with the same question,
\* max_revision, schema and gateway responses ends in the terminal state of
\* the first run, having consumed exactly the same responses.
C16_ReplaySameTerminalState ==
  (mode = "replay" /\ node = "END") =>
     /\ <<state>> = expected
     /\ canned = <<>>

\* C16 witness: the replay of a three-draft run has ended.
C16_Witness ==
  /\ mode = "replay"
  /\ node = "END"
  /\ state.revision = 3
  /\ state.accepted
  /\ state.reflect # <<>>

\* C17: run hands the terminal state back to its caller.
C17_RunReturnsState == node = "END" => returned = <<state>>

\* C18: no gateway call is made by an agent whose schema text or database
\* identifier is missing.
C18_NoCallWithoutConfig ==
  calls > 0 => (self_table_schemas # "" /\ self_database # "")

\* C19: sql_writer executes at most max_revision + 1 times in a run, for
\* every integer max_revision.
C19_DraftsAtMostCapPlusOne == drafts <= state.max_revision + 1

\* C19 as amended: for every max_revision >= 0, sql_writer executes at most
\* max_revision + 1 times in a run.
C19_DraftsBoundNonNegative ==
  state.max_revision >= 0 => drafts <= state.max_revision + 1

\* C19 witness: max_revision = 0 and the one draft the bound allows.
C19_Witness ==
  /\ node = "END"
  /\ state.max_revision = 0
  /\ drafts = 1

\* C20: every run, a second run on the same compiled agent included, begins
\* with revision = 0, sql = '', accepted = FALSE, an empty 'reflect' and
\* empty schema fields, whatever the state the previous run left.
C20_RunStartsFresh ==
  [][ (node' = "search_engineer" /\ node # "search_engineer") =>
        /\ state'.revision = 0
        /\ state'.sql = <<>>
        /\ state'.accepted = FALSE
        /\ state'.reflect = <<>>
        /\ state'.table_schemas = ""
        /\ state'.database = ""
    ]_vars

\* C20 witness: a second run begins after a run that ended with revision 3
\* and a non-empty 'reflect'.
C20_Witness ==
  /\ mode = "replay"
  /\ node = "search_engineer"
  /\ expected[1].revision = 3
  /\ expected[1].reflect # <<>>
  /\ state.revision = 0

(* ----------------------- claims of the stage graph --------------------- *)

FeedbackClause == "Considere os seguintes feedbacks"

HasClause(instr) == \E k \in 1..Len(instr) : instr[k].part = FeedbackClause

\* What the draft texts of the model look like once trimmed: outer
\* whitespace gone, inner whitespace kept.
TrimmedDraft(t) ==
  CASE t = <<"S">> -> <<"S">>
    [] t = <<" ", "S", "\n">> -> <<"S">>
    [] t = <<"T", " ", "U">> -> <<"T", " ", "U">>

\* C22: search_engineer is entered only by the start of a run, executes
\* before any other stage and hands over to sql_writer; a completed
\* sql_writer is followed by qa_engineer, a completed chief_dba by
\* sql_writer, and once the run has ended no stage executes until run is
\* called anew.
C22_StageOrder ==
  [][ /\ (node' = "search_engineer" /\ node # "search_engineer") =>
           node \in {"idle", "END", "failed"}
      /\ node = "search_engineer" =>
           /\ drafts = 0 /\ calls = 0 /\ reviews = <<>> /\ feedbacks = <<>>
           /\ node' \in {"search_engineer", "sql_writer"}
      /\ node = "sql_writer" => node' \in {"sql_writer", "qa_engineer", "failed"}
      /\ node = "chief_dba" => node' \in {"chief_dba", "sql_writer", "failed"}
      /\ node \in {"END", "failed"} => node' \in {node, "search_engineer"}
    ]_vars

\* C22 witness: the second feedback has handed over to the SQL writer.
C22_Witness ==
  /\ node = "sql_writer"
  /\ drafts = 2
  /\ Len(feedbacks) = 2

\* C23: question and max_revision are, in every state of a run, the values
\* passed to run; table_schemas and database are set by search_engineer to
\* the values the agent was constructed with and changed by no other stage.
C23_InputsAndSchemaFrame ==
  /\ []((Running \/ Stopped) =>
          /\ state.question = args[1]
          /\ state.max_revision = args[2]
          /\ node # "search_engineer" =>
               /\ state.table_schemas = self_table_schemas
               /\ state.database = self_database)
  /\ [][ (node \in {"sql_writer", "qa_engineer", "chief_dba"}) =>
           (state'.table_schemas = state.table_schemas
              /\ state'.database = state.database) ]_vars

\* C23 witness: a three-draft run on question q2 and schema B has ended.
C23_Witness ==
  /\ node = "END"
  /\ state.revision = 3
  /\ state.question = "q2"
  /\ state.table_schemas = "schemaB"
  /\ state.database = "postgresql"

\* C24: from the first draft on, sql is the trimmed text of the most recent
\* draft, through the review and feedback stages and at END.
C24_SqlIsLastDraftTrimmed ==
  drafts >= 1 => state.sql = TrimmedDraft(last_draft)

\* C24 witness: a padded second draft was reviewed and the run ended.
C24_Witness ==
  /\ node = "END"
  /\ drafts = 2
  /\ last_draft = <<" ", "S", "\n">>
  /\ state.sql = <<"S">>

\* C25: the instruction of a draft holds the feedback clause iff 'reflect'
\* is non-empty when it is built: the first draft has the schema and the
\* question only, every later draft has the entries of 'reflect', joined in
\* order, between the schema and the question.
C25_FeedbackClause ==
  node = "qa_engineer" =>
     /\ HasClause(instruction) <=> state.reflect # <<>>
     /\ instruction[1].text = state.table_schemas
     /\ instruction[Len(instruction)].text = state.question
     /\ drafts = 1 => Len(instruction) = 2
     /\ drafts > 1 =>
          /\ Len(instruction) = 3
          /\ instruction[2].part = FeedbackClause
          /\ instruction[2].text = JoinLines(state.reflect)

\* C25 witness: a second draft was built with the feedback clause.
C25_Witness ==
  /\ node = "qa_engineer"
  /\ drafts = 2
  /\ Len(instruction) = 3
  /\ instruction[2].text = <<"f", "2">>

\* C26: for max_revision >= 1, revision <= max_revision in every state.
C26_RevisionWithinCap ==
  state.max_revision >= 1 => state.revision <= state.max_revision

\* C26 witness: the cap is met and the run has ended unaccepted.
C26_Witness ==
  /\ node = "END"
  /\ state.max_revision = 3
  /\ state.revision = 3
  /\ ~state.accepted

\* C27: with max_revision <= 0 a run drafts once, reviews once, never
\* reaches chief_dba and ends with revision = 1 whatever the verdict.
C27_NonPositiveCap ==
  ((Running \/ Stopped) /\ state.max_revision <= 0) =>
     /\ node # "chief_dba"
     /\ feedbacks = <<>>
     /\ drafts <= 1
     /\ Len(reviews) <= 1
     /\ Len(reviews) = 1 => node = "END"
     /\ node = "END" =>
          (drafts = 1 /\ Len(reviews) = 1 /\ state.revision = 1)

\* C27 witness: a rejected draft under max_revision = -1 ended the run.
C27_Witness ==
  /\ node = "END"
  /\ state.max_revision = 0 - 1
  /\ ~state.accepted
  /\ state.revision = 1

\* C28: execute_transaction and execute_many are all-or-nothing.  The
\* committed statements change only in the step that follows the successful
\* execution of every statement of the list, in list order, and they grow by
\* exactly that list; a step in which a statement or the commit raises a
\* database error commits nothing, discards what the transaction had executed,
\* executes none of the remaining statements and ends the operation with the
\* error raised; and whenever no operation is in progress the connection is
\* closed and no transaction is pending.
C28_AllOrNothing ==
  [][ /\ (committed' # committed) =>
           /\ db_pc # "idle"
           /\ todo = <<>>
           /\ pending = tx_queries
           /\ committed' = committed \o tx_queries
           /\ db_result' \in {"True", "total"}
      /\ (db_pc # "idle" /\ db_result' = "raised") =>
           /\ committed' = committed
           /\ pending' = <<>>
           /\ todo' = todo
           /\ db_pc' = "idle"
      /\ (db_pc' = "idle") => (~conn_open' /\ pending' = <<>>)
    ]_vars

\* The second statement of a list of two raised after the first had executed:
\* the error is raised, nothing is committed and the connection is closed.
C28_Witness ==
  /\ db_pc = "idle"
  /\ db_result = "raised"
  /\ Len(tx_queries) = 2
  /\ Len(todo) = 1
  /\ committed = <<>>
  /\ ~conn_open

\* C29: a query issued while no engine is held first connects, disconnect
\* leaves the manager with no engine, and once a disconnect has completed
\* every engine connect created has been disposed.
C29_EngineLifecycle ==
  /\ db_result = "rows" => engine # 0
  /\ db_result = "disconnected" => (engine = 0 /\ created \subseteq disposed)

\* C21: two runs of one compiled agent whose stages interleave never use the
\* same checkpoint identifier while both are in progress, and the state a run
\* ends with, read back from the checkpointer, is the state its own stream
\* reached.
C21_NoSharedCheckpoint ==
  /\ \A r1, r2 \in Runs :
       (r1 # r2 /\ cthread[r1] # "" /\ cthread[r2] # "") => cthread[r1] # cthread[r2]
  /\ \A r \in Runs : cnode[r] = "done" => cresult[r] = <<cstate[r]>>

====
